---- MODULE Spec2Model ----
(***************************************************************************)
(* rssify: a Discord bot that reconciles the configured RSS feeds with a   *)
(* persisted `reader` store, polls the feeds and posts every unread entry  *)
(* to the feed's channel, then marks the entries read.                     *)
(*                                                                         *)
(* The model follows src/rssify/rss.py (ReaderTaskExecutor, FeedManager,   *)
(* RSSReader), src/rssify/bot.py (DiscordBot) and src/rssify/__main__.py.  *)
(* Every `await` of the code is a step boundary: the coroutines of one     *)
(* asyncio.gather interleave at those points and nowhere else.             *)
(***************************************************************************)
EXTENDS Integers, Sequences, FiniteSets, TLC

\* Largest number of entries the feed u1 ever publishes; the other feeds
\* publish one entry at most.
MaxItems == 2

\* Feed URLs that occur in the configuration or in the persisted store.
Urls == {"u1", "u2", "u3"}

\* Optional[int]: None is the empty set, a value v is {v}.
None == {}

(***************************************************************************)
(* models.py: FeedConfig.  channel_id is `int | str`: an int is kept as    *)
(* [isInt |-> TRUE, int |-> n], a str as its sequence of characters.       *)
(***************************************************************************)
IntId(n) == [isInt |-> TRUE, int |-> n, str |-> <<>>]
StrId(s) == [isInt |-> FALSE, int |-> 0, str |-> s]

FeedConfig(url, cid, interval) ==
    [feed_url |-> url, channel_id |-> cid, update_interval |-> interval]

\* The configurations a run may be started with (ConfigFile.feeds).
Configs ==
    { <<>>,
      << FeedConfig("u1", StrId(<<"4", "0">>), None) >>,
      << FeedConfig("u2", StrId(<<"x">>), None) >>,
      << FeedConfig("u3", IntId(40), {15}) >>,
      << FeedConfig("u1", IntId(10), None),
         FeedConfig("u2", StrId(<<"n", "a", "n">>), None) >>,
      << FeedConfig("u2", StrId(<<"1", "0">>), None),
         FeedConfig("u3", IntId(20), None) >>,
      << FeedConfig("u1", IntId(30), None),
         FeedConfig("u3", StrId(<<"1", "0">>), {15}) >>,
      << FeedConfig("u1", StrId(<<>>), None),
         FeedConfig("u2", IntId(30), None),
         FeedConfig("u3", IntId(10), {15}) >> }

\* The channels the Discord client knows (discord.Client.get_channel).
ChannelCache == (10 :> "TextChannel") @@ (20 :> "TextChannel") @@
                (30 :> "VoiceChannel")

(***************************************************************************)
(* Python's int(str) over the decimal digits: ValueError for the empty   *)
(* string and for any character that is no digit.                          *)
(***************************************************************************)
DigitVal == ("0" :> 0) @@ ("1" :> 1) @@ ("2" :> 2) @@ ("3" :> 3) @@
            ("4" :> 4) @@ ("5" :> 5) @@ ("6" :> 6) @@ ("7" :> 7) @@
            ("8" :> 8) @@ ("9" :> 9)

RECURSIVE ParseDigits(_)
ParseDigits(s) ==
    IF Len(s) = 0 THEN 0
    ELSE 10 * ParseDigits(SubSeq(s, 1, Len(s) - 1)) + DigitVal[s[Len(s)]]

\* int(channel_id): {n} when it parses, {} when it raises ValueError.
ToInt(cid) ==
    IF cid.isInt THEN {cid.int}
    ELSE IF Len(cid.str) > 0 /\ \A j \in 1..Len(cid.str) : cid.str[j] \in DOMAIN DigitVal
         THEN {ParseDigits(cid.str)}
         ELSE {}

\* bot.py _get_channel without the isinstance check (any cached channel).
GetChannelAnyKind(cid) ==
    {n \in ToInt(cid) : n \in DOMAIN ChannelCache}

\* bot.py _get_channel: {n} for a text channel, {} for None.
GetChannel(cid) ==
    {n \in ToInt(cid) : n \in DOMAIN ChannelCache /\ ChannelCache[n] = "TextChannel"}

(***************************************************************************)
(* Sequences.                                                              *)
(***************************************************************************)
\* reversed(entries)
Reversed(s) == [j \in 1..Len(s) |-> s[Len(s) + 1 - j]]

\* n, n-1, .., 1
Descending(n) == [j \in 1..n |-> n + 1 - j]

Range(s) == {s[j] : j \in 1..Len(s)}

(***************************************************************************)
(* State.                                                                  *)
(***************************************************************************)
VARIABLES
    config,         \* RSSReader.config.feeds, fixed for the life of the store
    feeds,          \* store: the registered feed URLs
    tags,           \* store: url -> the ".reader.update" interval, None if unset
    entries,        \* store: url -> number of entries 1..entries[url] it holds
    read,           \* store: the entries <<url, n>> whose read flag is true
    pc,             \* where initialize_bot / the polling loop stands
    is_ready_flag,  \* DiscordBot.is_ready_flag
    addPc,          \* per configured feed: where its add_feed coroutine stands
    clPc,           \* where cleanup_removed_feeds stands
    delPending,     \* feeds_to_remove whose delete_feed has not run yet
    fpc,            \* per configured feed: where its _process_feed stands
    batch,          \* per configured feed: unread_entries of this cycle
    issued,         \* per configured feed: the order _send_entry tasks were created
    sendSt,         \* per configured feed, per entry: where its _send_entry stands
    received,       \* per configured feed: entries the channel got this cycle, in order
    markPending,    \* per configured feed: mark_entry_as_read tasks not run yet
    delivered,      \* history: entries some channel.send(embed) succeeded for
    storeErr,       \* history: per feed, a ReaderError hit its processing this cycle
    reconErr,       \* history: a ReaderError hit this run's reconciliation
    syncLog,        \* history: the scheduled flag of this run's first and latest update_feeds
    startRaised,    \* history: check_feeds.start() raised RuntimeError in this process
    runRaised,      \* history: ReaderTaskExecutor.run raised to its caller in this process
    startFeeds,     \* history: the registered URLs when this run's setup began
                    \* (kept until setup returns)
    storeFault,     \* history: a store call of this run's reconciliation failed in
                    \* the store (an I/O or storage error)
    faulted,        \* history: the store calls <<method, url>> of this run's
                    \* reconciliation that failed in the store (kept until setup
                    \* returns)
    directCalls,    \* history: the store methods this process has called on the
                    \* event-loop thread
    args_token,     \* args.token: <<>> for None, else <<the string>>
    env_token,      \* os.getenv("DISCORD_BOT_TOKEN"), likewise
    config_file,    \* what is at args.config
    bot_token,      \* initialize_bot's bot_token, <<>> until get_bot_token returned
    exit_status,    \* <<>> while the process runs, <<n>> after sys.exit(n)
    storeOpened     \* history: make_reader has been called in this process

bootVars == << args_token, env_token, config_file, bot_token, exit_status, storeOpened >>

vars == << config, feeds, tags, entries, read, pc, is_ready_flag, addPc, clPc,
           delPending, fpc, batch, issued, sendSt, received, markPending,
           delivered, storeErr, reconErr, startFeeds, syncLog, startRaised,
           runRaised, storeFault, faulted, directCalls, bootVars >>

storeVars == << feeds, tags, entries, read >>
setupVars == << addPc, clPc, delPending >>
cycleVars == << fpc, batch, issued, sendSt, received, markPending, storeErr >>

Feeds == DOMAIN config
Items == 1..MaxItems
ItemCap(u) == IF u = "u1" THEN MaxItems ELSE 1
ConfigUrls == {config[k].feed_url : k \in Feeds}

\* The volatile state of a freshly started process.
FreshCycle ==
    /\ fpc = [k \in Feeds |-> "idle"]
    /\ batch = [k \in Feeds |-> <<>>]
    /\ issued = [k \in Feeds |-> <<>>]
    /\ sendSt = [k \in Feeds |-> [i \in Items |-> "none"]]
    /\ received = [k \in Feeds |-> <<>>]
    /\ markPending = [k \in Feeds |-> {}]
    /\ storeErr = [k \in Feeds |-> FALSE]

FreshSetup ==
    /\ addPc = [k \in Feeds |-> "add"]
    /\ clPc = "snapshot"
    /\ delPending = {}

\* The values args.token and the environment variable are drawn from.
ArgTokens == {<<>>, <<"">>, <<"token-a">>}
EnvTokens == {<<>>, <<"">>, <<"token-e">>}

\* What load_config may find at args.config: a file that validates, no file,
\* a file that is no YAML, a YAML document that fails validation, an empty
\* document.
ConfigFiles ==
    {[kind |-> "valid", feeds |-> c] : c \in Configs}
        \cup {[kind |-> x, feeds |-> <<>>] :
                    x \in {"missing", "badyaml", "invalid", "empty"}}

\* The state once initialize_bot has its token, its configuration and its
\* RSSReader (the token came from the command line).
Init ==
    /\ config \in Configs
    /\ args_token = <<"token-a">>
    /\ env_token = <<>>
    /\ bot_token = <<"token-a">>
    /\ config_file = [kind |-> "valid", feeds |-> config]
    /\ exit_status = <<>>
    /\ storeOpened = TRUE
    /\ feeds \in SUBSET Urls
    /\ tags = [u \in Urls |-> None]
    /\ entries = [u \in Urls |-> 0]
    /\ read = {}
    /\ pc = "setup"
    /\ is_ready_flag = FALSE
    /\ FreshSetup
    /\ FreshCycle
    /\ delivered = {}
    /\ reconErr = FALSE
    /\ startFeeds = feeds
    /\ syncLog = <<>>
    /\ startRaised = FALSE
    /\ runRaised = FALSE
    /\ storeFault = FALSE
    /\ faulted = {}
    /\ directCalls = {}


\* The state when initialize_bot is entered.
StartInit ==
    /\ args_token \in ArgTokens
    /\ env_token \in EnvTokens
    /\ bot_token = <<>>
    /\ config_file \in ConfigFiles
    /\ exit_status = <<>>
    /\ storeOpened = FALSE
    /\ config = <<>>
    /\ feeds \in SUBSET Urls
    /\ tags = [u \in Urls |-> None]
    /\ entries = [u \in Urls |-> 0]
    /\ read = {}
    /\ pc = "token"
    /\ is_ready_flag = FALSE
    /\ FreshSetup
    /\ FreshCycle
    /\ delivered = {}
    /\ reconErr = FALSE
    /\ startFeeds = feeds
    /\ syncLog = <<>>
    /\ startRaised = FALSE
    /\ runRaised = FALSE
    /\ storeFault = FALSE
    /\ faulted = {}
    /\ directCalls = {}

\* Python truthiness of an optional string.
Truthy(token) == token # <<>> /\ token[1] # ""

\* The sources looked up with the environment first.
TokenSourcesEnvFirst == <<env_token, args_token>>

\* utils.get_bot_token: token_sources.
TokenSources == <<args_token, env_token>>

(***************************************************************************)
(* utils.get_bot_token: the first truthy source is returned; with none,    *)
(* ValueError is raised, which initialize_bot's except clause turns into   *)
(* sys.exit(1).                                                            *)
(***************************************************************************)
GetBotToken ==
    /\ pc = "token"
    /\ LET token_sources == TokenSources
           found == {n \in 1..Len(token_sources) : Truthy(token_sources[n])}
       IN IF found = {}
          THEN /\ pc' = "exited"
               /\ exit_status' = <<1>>
               /\ UNCHANGED bot_token
          ELSE /\ bot_token' = token_sources[CHOOSE n \in found : \A m \in found : n <= m]
               /\ pc' = "config"
               /\ UNCHANGED exit_status
    /\ UNCHANGED << faulted, directCalls, storeFault, args_token, env_token, config_file, storeOpened, config, storeVars,
                    is_ready_flag, setupVars, cycleVars, delivered, reconErr,
                    startFeeds, syncLog, startRaised, runRaised >>

(***************************************************************************)
(* utils.load_config: the validated configuration, or sys.exit(1) after    *)
(* FileNotFoundError, ValidationError or YAMLError; the TypeError of an    *)
(* empty document reaches initialize_bot's except clause, which exits with *)
(* 1 as well.                                                              *)
(***************************************************************************)
LoadConfig ==
    /\ pc = "config"
    /\ IF config_file.kind = "valid"
       THEN /\ config' = config_file.feeds
            /\ pc' = "reader"
            /\ UNCHANGED exit_status
       ELSE /\ pc' = "exited"
            /\ exit_status' = <<1>>
            /\ UNCHANGED config
    /\ addPc' = [k \in DOMAIN config' |-> "add"]
    /\ fpc' = [k \in DOMAIN config' |-> "idle"]
    /\ batch' = [k \in DOMAIN config' |-> <<>>]
    /\ issued' = [k \in DOMAIN config' |-> <<>>]
    /\ sendSt' = [k \in DOMAIN config' |-> [i \in Items |-> "none"]]
    /\ received' = [k \in DOMAIN config' |-> <<>>]
    /\ markPending' = [k \in DOMAIN config' |-> {}]
    /\ storeErr' = [k \in DOMAIN config' |-> FALSE]
    /\ UNCHANGED << faulted, directCalls, storeFault, args_token, env_token, config_file, bot_token, storeOpened,
                    storeVars, is_ready_flag, clPc, delPending, delivered,
                    reconErr, startFeeds, syncLog, startRaised, runRaised >>

(***************************************************************************)
(* RSSReader.__init__: make_reader opens the store; its ReaderError is     *)
(* raised again and ends initialize_bot with sys.exit(1).                  *)
(***************************************************************************)
InitReader(ok) ==
    /\ pc = "reader"
    /\ storeOpened' = TRUE
    /\ pc' = IF ok THEN "setup" ELSE "exited"
    /\ exit_status' = IF ok THEN exit_status ELSE <<1>>
    /\ UNCHANGED << faulted, directCalls, storeFault, args_token, env_token, config_file, bot_token, config, storeVars,
                    is_ready_flag, setupVars, cycleVars, delivered, reconErr,
                    startFeeds, syncLog, startRaised, runRaised >>

(***************************************************************************)
(* The store (the `reader` library) as the code uses it.  Every store call *)
(* either takes effect or raises ReaderError and changes nothing; `ok`     *)
(* names which of the two happens.                                         *)
(***************************************************************************)
\* get_entries without the read=False filter.
AllEntries(url) == Descending(entries[url])

\* Reader.get_entries(feed=url, read=False), newest first.
Unread(url) ==
    SelectSeq(Descending(entries[url]), LAMBDA n : <<url, n>> \notin read)

\* What Reader.update_feeds may leave in the store: every registered feed
\* keeps its entries and may have gained new ones; nothing else changes.
Updated ==
    {e \in [Urls -> 0..MaxItems] :
        \A u \in Urls : IF u \in feeds THEN e[u] >= entries[u] /\ e[u] <= ItemCap(u)
                                        ELSE e[u] = entries[u]}

\* A run that has no except clause.
ExecutorCatchesNothing(exc) == FALSE

\* ReaderTaskExecutor.run: except ReaderError.
ExecutorCatches(exc) == exc = "ReaderError"

\* ReaderTaskExecutor.run(func, ..., default): the result of func, or default
\* when func raised a ReaderError that run caught, or the error itself.
RunOutcome(ok) ==
    IF ok THEN "result" ELSE IF ExecutorCatches("ReaderError") THEN "default" ELSE "raise"

\* The scheduled flag of an update_feeds call is logged: the first call of
\* the run and the latest one are kept.
LogSync(scheduled) ==
    IF Len(syncLog) < 2 THEN Append(syncLog, scheduled) ELSE <<syncLog[1], scheduled>>

\* add_feed called without the keyword: the store's default, exist_ok=False.
AddFeedExistOkDefault == FALSE

\* FeedManager.add_feed: the exist_ok it passes to the store.
AddFeedExistOk == TRUE

(***************************************************************************)
(* rss.py FeedManager.add_feed, first await: executor.run(add_feed, url,   *)
(* exist_ok=True).  The store raises FeedExistsError (a ReaderError) for a *)
(* registered URL unless exist_ok is set.  ReaderTaskExecutor.run swallows *)
(* a ReaderError.                                                          *)
(***************************************************************************)
AddFeed(k, ok) ==
    /\ pc = "setup"
    /\ addPc[k] = "add"
    /\ LET url == config[k].feed_url
           done == ok /\ (url \in feeds => AddFeedExistOk)
       IN /\ feeds' = IF done THEN feeds \cup {url} ELSE feeds
          /\ reconErr' = (reconErr \/ ~done)
          /\ runRaised' = (runRaised \/ RunOutcome(done) = "raise")
          /\ faulted' = IF ok THEN faulted ELSE faulted \cup {<<"add_feed", url>>}
    /\ storeFault' = (storeFault \/ ~ok)
    /\ addPc' = [addPc EXCEPT ![k] =
                    IF config[k].update_interval # None THEN "tag" ELSE "done"]
    /\ UNCHANGED << directCalls, bootVars, startRaised, syncLog, config, tags, entries, read, pc, is_ready_flag, clPc, delPending,
                    cycleVars, delivered,
                    startFeeds >>

(***************************************************************************)
(* FeedManager.add_feed, after the await: set_tag is called on the store   *)
(* directly; it raises FeedNotFoundError (a ReaderError) for a feed that   *)
(* is not registered, and add_feed's own except clause catches it.         *)
(***************************************************************************)
SetTag(k, ok) ==
    /\ pc = "setup"
    /\ addPc[k] = "tag"
    /\ LET url == config[k].feed_url
           done == ok /\ url \in feeds
       IN /\ tags' = IF done THEN [tags EXCEPT ![url] = config[k].update_interval]
                     ELSE tags
          /\ reconErr' = (reconErr \/ ~done)
          /\ faulted' = IF ok THEN faulted ELSE faulted \cup {<<"set_tag", url>>}
    /\ storeFault' = (storeFault \/ ~ok)
    /\ directCalls' = directCalls \cup {"set_tag"}
    /\ addPc' = [addPc EXCEPT ![k] = "done"]
    /\ UNCHANGED << bootVars, runRaised, startRaised, syncLog, config, feeds, entries, read, pc, is_ready_flag, clPc, delPending,
                    cycleVars, delivered,
                    startFeeds >>

\* A cleanup that removes every registered feed (the set difference left out).
FeedsToRemoveAll(existing_feeds, config_feeds) == existing_feeds

\* The set difference taken the wrong way round.
FeedsToRemoveSwapped(existing_feeds, config_feeds) == config_feeds \ existing_feeds

\* FeedManager.cleanup_removed_feeds: feeds_to_remove.
FeedsToRemove(existing_feeds, config_feeds) == existing_feeds \ config_feeds

(***************************************************************************)
(* FeedManager.cleanup_removed_feeds up to its gather: get_existing_feeds  *)
(* (the empty set on a ReaderError), then one delete_feed task per stale   *)
(* URL.  RSSReader.cleanup_removed_feeds passes the configured URLs.       *)
(***************************************************************************)
CleanupSnapshot(ok) ==
    /\ pc = "setup"
    /\ clPc = "snapshot"
    /\ LET existing_feeds == IF ok THEN feeds ELSE {}
           feeds_to_remove == FeedsToRemove(existing_feeds, ConfigUrls)
       IN /\ delPending' = feeds_to_remove
          /\ clPc' = IF feeds_to_remove # {} THEN "deleting" ELSE "done"
    /\ reconErr' = (reconErr \/ ~ok)
    /\ storeFault' = (storeFault \/ ~ok)
    /\ faulted' = IF ok THEN faulted ELSE faulted \cup {<<"get_feeds", "">>}
    /\ runRaised' = (runRaised \/ RunOutcome(ok) = "raise")
    /\ UNCHANGED << directCalls, bootVars, startRaised, syncLog, config, storeVars, pc, is_ready_flag, addPc, cycleVars,
                    delivered, startFeeds >>

\* Deletions run one after the other, the first failure ending them.
DeletesLeftUntilFailure(pending, u, ok) == IF ok THEN pending \ {u} ELSE {}

\* FeedManager.cleanup_removed_feeds: the delete_feed tasks its gather still
\* waits for when the task of u has ended.
DeletesLeft(pending, u, ok) == pending \ {u}

(***************************************************************************)
(* FeedManager.delete_feed: executor.run(delete_feed, url).  Deleting a    *)
(* feed deletes its entries and tags with it.  The gather of               *)
(* cleanup_removed_feeds returns with the last task.                       *)
(***************************************************************************)
DeleteFeed(u, ok) ==
    /\ pc = "setup"
    /\ clPc = "deleting"
    /\ u \in delPending
    /\ LET done == ok /\ u \in feeds
       IN /\ feeds' = IF done THEN feeds \ {u} ELSE feeds
          /\ tags' = IF done THEN [tags EXCEPT ![u] = None] ELSE tags
          /\ entries' = IF done THEN [entries EXCEPT ![u] = 0] ELSE entries
          /\ read' = IF done THEN {it \in read : it[1] # u} ELSE read
          /\ reconErr' = (reconErr \/ ~done)
          /\ runRaised' = (runRaised \/ RunOutcome(done) = "raise")
    /\ storeFault' = (storeFault \/ ~ok)
    /\ faulted' = IF ok THEN faulted ELSE faulted \cup {<<"delete_feed", u>>}
    /\ delPending' = DeletesLeft(delPending, u, ok)
    /\ clPc' = IF delPending' = {} THEN "done" ELSE "deleting"
    /\ UNCHANGED << directCalls, bootVars, startRaised, syncLog, config, pc, is_ready_flag, addPc, cycleVars, delivered,
                    startFeeds >>

\* RSSReader.setup: the gather of add_feeds and cleanup_removed_feeds returns.
SetupJoin ==
    /\ pc = "setup"
    /\ \A k \in Feeds : addPc[k] = "done"
    /\ clPc = "done"
    /\ pc' = "update0"
    /\ UNCHANGED << faulted, directCalls, storeFault, bootVars, runRaised, startRaised, syncLog, config, storeVars, is_ready_flag, setupVars, cycleVars,
                    delivered, reconErr, startFeeds >>

\* update_feeds called without the keyword: FeedManager's default, scheduled=True.
SetupScheduledDefault == TRUE

\* RSSReader.setup: the flag of its update_feeds call.
SetupScheduled == FALSE

\* DiscordBot.check_feeds: the flag of its update_feeds call.
CheckFeedsScheduled == TRUE

(***************************************************************************)
(* RSSReader.setup: update_feeds(scheduled=False); then initialize_bot     *)
(* builds the DiscordBot and starts it.  Which feeds the store refreshes   *)
(* under either flag is the store's business: both leave it in `Updated`.  *)
(***************************************************************************)
InitialUpdate(ok, e) ==
    /\ pc = "update0"
    /\ syncLog' = LogSync(SetupScheduled)
    /\ entries' = IF ok THEN e ELSE entries
    /\ pc' = "connecting"
    /\ startFeeds' = {}
    /\ faulted' = {}
    /\ runRaised' = (runRaised \/ RunOutcome(ok) = "raise")
    /\ UNCHANGED << directCalls, storeFault, bootVars, startRaised, config, feeds, tags, read, is_ready_flag, setupVars, cycleVars,
                    delivered, reconErr >>

\* DiscordBot.on_ready: the flag is set and check_feeds is started.
OnReady ==
    /\ pc = "connecting"
    /\ is_ready_flag' = TRUE
    /\ pc' = "idle"
    /\ UNCHANGED << faulted, directCalls, storeFault, bootVars, runRaised, startRaised, syncLog, config, storeVars, setupVars, cycleVars, delivered, reconErr,
                    startFeeds >>


(***************************************************************************)
(* bot.py DiscordBot.check_feeds up to its gather: update_feeds            *)
(* (scheduled=True), then one _process_feed task per configured feed.      *)
(* tasks.loop starts an iteration only after the previous one returned;    *)
(* the sends a previous iteration left behind have long ended by then.     *)
(***************************************************************************)
InFlight(k) == {i \in Items : sendSt[k][i] \in {"send", "notice"}}

CheckFeeds(ok, e) ==
    /\ pc = "idle"
    /\ syncLog' = LogSync(CheckFeedsScheduled)
    /\ \A k \in Feeds : InFlight(k) = {}
    /\ entries' = IF ok THEN e ELSE entries
    /\ pc' = "polling"
    /\ fpc' = [k \in Feeds |-> "fetch"]
    /\ batch' = [k \in Feeds |-> <<>>]
    /\ issued' = [k \in Feeds |-> <<>>]
    /\ sendSt' = [k \in Feeds |-> [i \in Items |-> "none"]]
    /\ received' = [k \in Feeds |-> <<>>]
    /\ markPending' = [k \in Feeds |-> {}]
    /\ storeErr' = [k \in Feeds |-> FALSE]
    /\ runRaised' = (runRaised \/ RunOutcome(ok) = "raise")
    /\ UNCHANGED << faulted, directCalls, storeFault, bootVars, startRaised, config, feeds, tags, read, is_ready_flag, setupVars, delivered,
                    reconErr, startFeeds >>

(***************************************************************************)
(* DiscordBot._process_feed up to the gather of _process_entries:          *)
(* get_unread_entries ([] on a ReaderError), the two early returns, then   *)
(* one _send_entry task per entry of reversed(unread_entries).             *)
(***************************************************************************)
ProcessFeedFetch(k, ok) ==
    /\ fpc[k] = "fetch"
    /\ LET unread_entries == IF RunOutcome(ok) = "result"
                             THEN Unread(config[k].feed_url) ELSE <<>>
           channel == GetChannel(config[k].channel_id)
           go == unread_entries # <<>> /\ channel # {}
       IN /\ batch' = [batch EXCEPT ![k] = unread_entries]
          /\ fpc' = [fpc EXCEPT ![k] = IF go THEN "sending" ELSE "done"]
          /\ issued' = [issued EXCEPT ![k] =
                           IF go THEN Reversed(unread_entries) ELSE <<>>]
          /\ sendSt' = [sendSt EXCEPT ![k] =
                           [i \in Items |->
                               IF go /\ i \in Range(unread_entries) THEN "send"
                               ELSE "none"]]
    /\ storeErr' = [storeErr EXCEPT ![k] = ~ok]
    /\ runRaised' = (runRaised \/ RunOutcome(ok) = "raise")
    /\ UNCHANGED << faulted, directCalls, storeFault, bootVars, startRaised, syncLog, config, storeVars, pc, is_ready_flag, setupVars, received,
                    markPending, delivered, reconErr, startFeeds >>

(***************************************************************************)
(* DiscordBot._send_entry, channel.send(embed=...): the sends of one batch *)
(* are in flight together and end in any order.  A DiscordException takes  *)
(* the task to its except clause.                                          *)
(***************************************************************************)
SendEntry(k, i, ok) ==
    /\ sendSt[k][i] = "send"
    /\ sendSt' = [sendSt EXCEPT ![k][i] = IF ok THEN "sent" ELSE "notice"]
    /\ received' = [received EXCEPT ![k] = IF ok THEN Append(@, i) ELSE @]
    /\ delivered' = IF ok THEN delivered \cup {<<config[k].feed_url, i>>}
                    ELSE delivered
    /\ UNCHANGED << faulted, directCalls, storeFault, bootVars, runRaised, startRaised, syncLog, config, storeVars, pc, is_ready_flag, setupVars, fpc, batch,
                    issued, markPending, storeErr, reconErr, startFeeds >>

(***************************************************************************)
(* DiscordBot._send_entry, except clause: channel.send(error_message).     *)
(* When it raises too, the task ends with a DiscordException: the gather   *)
(* of _process_entries hands it to _process_feed, whose except clause logs *)
(* it and returns; the other sends of the batch go on.  An exception that  *)
(* _process_feed does not catch leaves it, leaves the gather of            *)
(* check_feeds and ends the tasks.loop.                                    *)
(***************************************************************************)
\* An except clause that names reader.ReaderError alone.
ProcessFeedCatchesReaderError(exc) == exc = "ReaderError"

\* DiscordBot._process_feed: except (reader.ReaderError, discord.DiscordException).
ProcessFeedCatches(exc) == exc \in {"ReaderError", "DiscordException"}

SendNotice(k, i, ok) ==
    /\ sendSt[k][i] = "notice"
    /\ sendSt' = [sendSt EXCEPT ![k][i] = IF ok THEN "noticed" ELSE "raised"]
    /\ LET raises == ~ok /\ fpc[k] = "sending"
           caught == ProcessFeedCatches("DiscordException")
       IN /\ fpc' = [fpc EXCEPT ![k] = IF ~raises THEN @
                                       ELSE IF caught THEN "done" ELSE "failed"]
          /\ pc' = IF raises /\ ~caught /\ pc = "polling" THEN "stopped" ELSE pc
    /\ UNCHANGED << faulted, directCalls, storeFault, bootVars, runRaised, startRaised, syncLog, config, storeVars, is_ready_flag, setupVars, batch, issued,
                    received, markPending, delivered, storeErr, reconErr, startFeeds >>

\* A _process_feed that marks nothing.
EntriesToMarkNone(k) == {}

(***************************************************************************)
(* DiscordBot._send_entry, format_entry_for_discord(entry): it runs when   *)
(* the task starts, before any send of the batch has returned.  What it    *)
(* raises (a RecursionError of the HTML conversion on deeply nested        *)
(* markup) is no DiscordException: it leaves _send_entry, and through the  *)
(* gather of _process_entries it reaches _process_feed.                    *)
(***************************************************************************)
FormatError(k, i) ==
    /\ sendSt[k][i] = "send"
    /\ \A j \in Items : sendSt[k][j] \in {"none", "send", "unformatted"}
    /\ sendSt' = [sendSt EXCEPT ![k][i] = "unformatted"]
    /\ LET raises == fpc[k] = "sending"
           caught == ProcessFeedCatches("RecursionError")
       IN /\ fpc' = [fpc EXCEPT ![k] = IF ~raises THEN @
                                       ELSE IF caught THEN "done" ELSE "failed"]
          /\ pc' = IF raises /\ ~caught /\ pc = "polling" THEN "stopped" ELSE pc
    /\ UNCHANGED << faulted, directCalls, storeFault, bootVars, runRaised, syncLog, startRaised, config, storeVars, is_ready_flag, setupVars,
                    batch, issued, received, markPending, delivered, storeErr,
                    reconErr, startFeeds >>

\* DiscordBot._process_feed: the argument of mark_entries_as_read.
EntriesToMark(k) == Range(batch[k])

(***************************************************************************)
(* DiscordBot._process_feed: the gather of _process_entries returns (every *)
(* _send_entry ended without raising) and mark_entries_as_read creates one *)
(* mark_entry_as_read task per entry.                                      *)
(***************************************************************************)
ProcessEntriesReturn(k) ==
    /\ fpc[k] = "sending"
    /\ \A i \in Range(batch[k]) : sendSt[k][i] \in {"sent", "noticed"}
    /\ markPending' = [markPending EXCEPT ![k] = EntriesToMark(k)]
    /\ fpc' = [fpc EXCEPT ![k] = IF EntriesToMark(k) = {} THEN "done" ELSE "marking"]
    /\ UNCHANGED << faulted, directCalls, storeFault, bootVars, runRaised, startRaised, syncLog, config, storeVars, pc, is_ready_flag, setupVars, batch, issued,
                    sendSt, received, delivered, storeErr, reconErr, startFeeds >>

(***************************************************************************)
(* FeedManager.mark_entry_as_read: executor.run(mark_entry_as_read, entry) *)
(* The gather of mark_entries_as_read, and _process_feed with it, returns  *)
(* with the last task.                                                     *)
(***************************************************************************)
MarkEntryAsRead(k, i, ok) ==
    /\ fpc[k] = "marking"
    /\ i \in markPending[k]
    /\ LET url == config[k].feed_url
           done == ok /\ url \in feeds /\ i <= entries[url]
       IN /\ read' = IF done THEN read \cup {<<url, i>>} ELSE read
          /\ storeErr' = [storeErr EXCEPT ![k] = @ \/ ~done]
          /\ runRaised' = (runRaised \/ RunOutcome(done) = "raise")
    /\ markPending' = [markPending EXCEPT ![k] = @ \ {i}]
    /\ fpc' = [fpc EXCEPT ![k] = IF markPending'[k] = {} THEN "done" ELSE "marking"]
    /\ UNCHANGED << faulted, directCalls, storeFault, bootVars, startRaised, syncLog, config, feeds, tags, entries, pc, is_ready_flag, setupVars, batch,
                    issued, sendSt, received, delivered, reconErr, startFeeds >>

\* DiscordBot.check_feeds: the gather of the _process_feed tasks returns.
CheckFeedsJoin ==
    /\ pc = "polling"
    /\ \A k \in Feeds : fpc[k] = "done"
    /\ pc' = "idle"
    /\ UNCHANGED << faulted, directCalls, storeFault, bootVars, runRaised, startRaised, syncLog, config, storeVars, is_ready_flag, setupVars, cycleVars, delivered,
                    reconErr, startFeeds >>

(***************************************************************************)
(* The process dies and is started again on the same store and the same    *)
(* configuration: everything but the store is lost.                        *)
(***************************************************************************)
Crash ==
    /\ UNCHANGED << bootVars, config, storeVars, delivered >>
    /\ pc' = "setup"
    /\ is_ready_flag' = FALSE
    /\ addPc' = [k \in Feeds |-> "add"]
    /\ clPc' = "snapshot"
    /\ delPending' = {}
    /\ fpc' = [k \in Feeds |-> "idle"]
    /\ batch' = [k \in Feeds |-> <<>>]
    /\ issued' = [k \in Feeds |-> <<>>]
    /\ sendSt' = [k \in Feeds |-> [i \in Items |-> "none"]]
    /\ received' = [k \in Feeds |-> <<>>]
    /\ markPending' = [k \in Feeds |-> {}]
    /\ storeErr' = [k \in Feeds |-> FALSE]
    /\ reconErr' = FALSE
    /\ startFeeds' = feeds
    /\ syncLog' = <<>>
    /\ startRaised' = FALSE
    /\ runRaised' = FALSE
    /\ storeFault' = FALSE
    /\ faulted' = {}
    /\ directCalls' = {}

Setup ==
    \/ \E k \in Feeds, ok \in BOOLEAN : AddFeed(k, ok) \/ SetTag(k, ok)
    \/ \E ok \in BOOLEAN : CleanupSnapshot(ok)
    \/ \E u \in Urls, ok \in BOOLEAN : DeleteFeed(u, ok)
    \/ SetupJoin
    \/ \E ok \in BOOLEAN, e \in Updated : InitialUpdate(ok, e)
    \/ OnReady

Cycle ==
    \/ \E ok \in BOOLEAN, e \in Updated : CheckFeeds(ok, e)
    \/ \E k \in Feeds, ok \in BOOLEAN : ProcessFeedFetch(k, ok)
    \/ \E k \in Feeds, i \in Items, ok \in BOOLEAN : SendEntry(k, i, ok)
    \/ \E k \in Feeds, i \in Items, ok \in BOOLEAN : SendNotice(k, i, ok)
    \/ \E k \in Feeds, i \in Items : FormatError(k, i)
    \/ \E k \in Feeds : ProcessEntriesReturn(k)
    \/ \E k \in Feeds, i \in Items, ok \in BOOLEAN : MarkEntryAsRead(k, i, ok)
    \/ CheckFeedsJoin

Next == Setup \/ Cycle \/ Crash

Spec == Init /\ [][Next]_vars

(***************************************************************************)
(* Runs of one process that is never killed.  The event loop runs every    *)
(* coroutine that can go on and the tasks.loop timer keeps firing, so      *)
(* setup and the polling cycles are weakly fair; which store calls and     *)
(* which sends fail is left open.                                          *)
(***************************************************************************)
LiveNext == Setup \/ Cycle

LiveSpec == Init /\ [][LiveNext]_vars /\ WF_vars(Setup) /\ WF_vars(Cycle)

(***************************************************************************)
(* DiscordBot.on_ready when the gateway sends READY again (a reconnect     *)
(* that could not resume the session).  Loop.start() of discord.ext.tasks  *)
(* raises RuntimeError while the loop's task is running; when the task has *)
(* ended, it starts the loop anew.  By the time of a reconnect the tasks   *)
(* an ended iteration left behind have returned.                           *)
(***************************************************************************)
ReadyAgain ==
    /\ pc \in {"idle", "polling", "stopped"}
    /\ is_ready_flag' = TRUE
    /\ IF pc = "stopped"
       THEN /\ \A k \in Feeds : fpc[k] \in {"done", "failed"} /\ InFlight(k) = {}
            /\ pc' = "idle"
            /\ UNCHANGED startRaised
       ELSE /\ startRaised' = TRUE
            /\ UNCHANGED pc
    /\ UNCHANGED << faulted, directCalls, storeFault, bootVars, runRaised, syncLog, config, storeVars, setupVars, cycleVars, delivered,
                    reconErr, startFeeds >>

ReadyNext == Next \/ ReadyAgain

\* Runs in which the gateway may send READY more than once.
ReadySpec == Init /\ [][ReadyNext]_vars

(***************************************************************************)
(* initialize_bot from its first line to the running bot, for every token  *)
(* and configuration it may be started with.                               *)
(***************************************************************************)
StartNext ==
    \/ GetBotToken
    \/ LoadConfig
    \/ \E ok \in BOOLEAN : InitReader(ok)
    \/ Setup

StartSpec == StartInit /\ [][StartNext]_vars

\* DiscordBot.liveness_probe: the status of the response.
LivenessProbe(request) == 200

\* A readiness probe that answers 200 whatever the flag.
ReadinessProbeAlwaysOk(request) == 200

\* DiscordBot.readiness_probe: the status of the response.
ReadinessProbe(request) == IF is_ready_flag THEN 200 ELSE 503

(***************************************************************************)
(* Runs of one process in which no store call and no send fails and the    *)
(* process is not killed.                                                  *)
(***************************************************************************)
CleanNext ==
    \/ \E k \in Feeds : AddFeed(k, TRUE) \/ SetTag(k, TRUE)
    \/ CleanupSnapshot(TRUE)
    \/ \E u \in Urls : DeleteFeed(u, TRUE)
    \/ SetupJoin
    \/ \E e \in Updated : InitialUpdate(TRUE, e)
    \/ OnReady
    \/ \E e \in Updated : CheckFeeds(TRUE, e)
    \/ \E k \in Feeds : ProcessFeedFetch(k, TRUE)
    \/ \E k \in Feeds, i \in Items : SendEntry(k, i, TRUE)
    \/ \E k \in Feeds : ProcessEntriesReturn(k)
    \/ \E k \in Feeds, i \in Items : MarkEntryAsRead(k, i, TRUE)
    \/ CheckFeedsJoin

CleanSpec == Init /\ [][CleanNext]_vars


(***************************************************************************)
(* Vocabulary of the properties.                                           *)
(***************************************************************************)
Url(k) == config[k].feed_url

\* The send of entry i of feed k raised in this cycle.
SendRaised(k, i) == sendSt[k][i] \in {"notice", "noticed", "raised"}

\* The polling cycle has returned (the loop waits for its next iteration).
CycleEnded == pc = "idle"

\* No channel for the feed: a non-numeric id, an unknown id or a channel that
\* is no text channel.
Unresolvable(k) ==
    LET cid == config[k].channel_id
    IN \/ ToInt(cid) = {}
       \/ \E n \in ToInt(cid) : n \notin DOMAIN ChannelCache
       \/ \E n \in ToInt(cid) : n \in DOMAIN ChannelCache /\ ChannelCache[n] # "TextChannel"

\* Something failed while feed k was processed in this cycle.
FailedIn(k) ==
    \/ Unresolvable(k)
    \/ storeErr[k]
    \/ \E i \in Items : SendRaised(k, i)

(***************************************************************************)
(* C1: an entry whose send raised in a cycle is unread when the cycle      *)
(* ends, and the next unread fetch of its feed returns it again.           *)
(***************************************************************************)
C1_FailedSendStaysUnread ==
    CycleEnded =>
        \A k \in Feeds, i \in Items :
            SendRaised(k, i) =>
                /\ <<Url(k), i>> \notin read
                /\ i \in Range(Unread(Url(k)))

(***************************************************************************)
(* C2: in every state, every entry whose read flag is set has had a send   *)
(* to its feed's channel that succeeded.                                   *)
(***************************************************************************)
C2_ReadOnlyAfterConfirmedSend == read \subseteq delivered

(***************************************************************************)
(* C3: when the cycle has ended, all sends of a feed's batch have ended    *)
(* and no mark-read of the feed failed in the store, every entry of the    *)
(* batch whose send succeeded is read, whatever happened to the others.    *)
(***************************************************************************)
C3_SentEntriesMarkedInSameCycle ==
    \A k \in Feeds :
        (CycleEnded /\ InFlight(k) = {} /\ ~storeErr[k]) =>
            \A i \in Items : sendSt[k][i] = "sent" => <<Url(k), i>> \in read

\* No store call of the polling cycle failed.
StoreHealthy == \A k \in Feeds : ~storeErr[k]

\* No send of the polling cycle raised.
TransportHealthy == \A k \in Feeds, i \in Items : ~SendRaised(k, i)

\* No entry of the polling cycle failed to format.
FormatHealthy == \A k \in Feeds, i \in Items : sendSt[k][i] # "unformatted"

(***************************************************************************)
(* C4: if from some time on no store call fails (and no entry fails to     *)
(* format), every entry that was sent successfully is eventually marked    *)
(* read.                                                                   *)
(***************************************************************************)
C4_SentEventuallyRead ==
    (<>[](StoreHealthy /\ FormatHealthy)) =>
        \A it \in Urls \X Items : (it \in delivered) ~> (it \in read)

(***************************************************************************)
(* C5: if from some time on no send raises, no store call fails (and no    *)
(* entry fails to format), every unread entry of a configured feed with a  *)
(* resolvable channel is eventually sent successfully.                     *)
(***************************************************************************)
C5_UnreadEventuallySent ==
    (<>[](StoreHealthy /\ TransportHealthy /\ FormatHealthy)) =>
        \A u \in Urls, i \in Items :
            (/\ \E k \in Feeds : Url(k) = u /\ ~Unresolvable(k)
             /\ i <= entries[u]
             /\ <<u, i>> \notin read) ~> (<<u, i>> \in delivered)

(***************************************************************************)
(* C6: a resolution, transport or store failure makes no exception leave   *)
(* a feed's processing or the cycle, and when a cycle has ended every feed *)
(* that met no failure of its own has had all its unread entries sent and  *)
(* marked read, whatever failed in the other feeds.                        *)
(***************************************************************************)
C6_FeedIsolation ==
    /\ FormatHealthy => (pc # "stopped" /\ \A k \in Feeds : fpc[k] # "failed")
    /\ CycleEnded =>
          \A b \in Feeds :
              ~FailedIn(b) =>
                  \A i \in Range(batch[b]) :
                      sendSt[b][i] = "sent" /\ <<Url(b), i>> \in read

\* A cycle ended in which feed a's failure notice raised while feed b's
\* entries were all sent and marked read.
C6_Witness ==
    /\ CycleEnded
    /\ \E a, b \in Feeds :
          /\ a # b
          /\ \E i \in Items : sendSt[a][i] = "raised"
          /\ ~FailedIn(b)
          /\ batch[b] # <<>>
          /\ \A i \in Range(batch[b]) : <<Url(b), i>> \in read

(***************************************************************************)
(* C7: for a feed whose channel cannot be resolved nothing is ever sent,   *)
(* no read flag of its entries is ever set, and every unread fetch that    *)
(* the store answers returns all the entries the store holds for it.       *)
(***************************************************************************)
C7_UnresolvedChannelSendsNothing ==
    \A k \in Feeds :
        Unresolvable(k) =>
            /\ \A i \in Items : sendSt[k][i] = "none"
            /\ received[k] = <<>>
            /\ markPending[k] = {}
            /\ \A i \in Items : <<Url(k), i>> \notin read \cup delivered
            /\ (fpc[k] = "done" /\ ~storeErr[k]) => batch[k] = Descending(entries[Url(k)])

\* A cycle ended in which an unresolvable feed had unread entries.
C7_Witness ==
    /\ CycleEnded
    /\ \E k \in Feeds :
          /\ Unresolvable(k)
          /\ fpc[k] = "done"
          /\ batch[k] # <<>>
          /\ Range(batch[k]) = Range(Unread(Url(k)))

(***************************************************************************)
(* C8: the channel receives the entries of one batch oldest first          *)
(* (entry 1 is the oldest), however the sends interleave.                  *)
(***************************************************************************)
C8_ChannelReceivesOldestFirst ==
    \A k \in Feeds :
        \A j1, j2 \in 1..Len(received[k]) :
            j1 < j2 => received[k][j1] < received[k][j2]

(***************************************************************************)
(* C9: when setup's reconciliation has returned and no store call of it    *)
(* failed, the registered URLs are the configured URLs: what was added is  *)
(* C \ S and what was removed is S \ C.                                    *)
(***************************************************************************)
C9_ReconciledStoreEqualsConfig ==
    (pc = "update0" /\ ~reconErr) =>
        /\ feeds = ConfigUrls
        /\ feeds \ startFeeds = ConfigUrls \ startFeeds
        /\ startFeeds \ feeds = startFeeds \ ConfigUrls

\* A reconciliation returned that had feeds to add, to remove and to keep.
C9_Witness ==
    /\ pc = "update0"
    /\ ~reconErr
    /\ ConfigUrls \ startFeeds # {}
    /\ startFeeds \ ConfigUrls # {}
    /\ ConfigUrls \cap startFeeds # {}
    /\ feeds = ConfigUrls

(***************************************************************************)
(* C10: no configured URL is ever among the feeds selected for deletion,   *)
(* and no step removes a configured URL from the store.                    *)
(***************************************************************************)
C10_ConfiguredNeverRemoved ==
    /\ [](delPending \cap ConfigUrls = {})
    /\ [][\A u \in ConfigUrls : u \in feeds => u \in feeds']_vars

\* The cleanup snapshot was taken after an add of this run registered a
\* feed and while another add is still to run; deletions are pending.
C10_Witness ==
    /\ pc = "setup"
    /\ clPc = "deleting"
    /\ delPending # {}
    /\ \E k \in Feeds : addPc[k] = "add"
    /\ \E k \in Feeds : addPc[k] # "add" /\ Url(k) \in feeds \ startFeeds

(***************************************************************************)
(* C11: a read flag, once set, stays set; an entry that is read has no     *)
(* send in flight, is in no later unread fetch and gets no new send, in    *)
(* later cycles and after a restart on the same store.                     *)
(***************************************************************************)
C11_ReadIsMonotone ==
    /\ [](\A k \in Feeds, i \in Items :
            <<Url(k), i>> \in read => sendSt[k][i] \notin {"send", "notice"})
    /\ [][\A k \in Feeds, i \in Items :
            <<Url(k), i>> \in read =>
                /\ <<Url(k), i>> \in read'
                /\ batch'[k] # batch[k] => i \notin Range(batch'[k])
                /\ sendSt'[k][i] = "send" => sendSt[k][i] = "send"]_vars

\* A later cycle fetched the unread entries of a feed that has a read entry
\* and an unread one: the fetch returned the unread one alone.
C11_Witness ==
    \E k \in Feeds, i \in Items :
        /\ <<Url(k), i>> \in read
        /\ fpc[k] \in {"sending", "done"}
        /\ ~storeErr[k]
        /\ batch[k] # <<>>
        /\ i \notin Range(batch[k])

(***************************************************************************)
(* C12: in a run without failures and without a crash, for a feed whose    *)
(* channel resolves: no entry is sent a second time, whatever the number   *)
(* of cycles; an iteration starts only when none is running; and when a    *)
(* cycle has ended every entry the store holds for the feed has been sent  *)
(* and is read, so the next cycle's unread fetch does not return it.       *)
(***************************************************************************)
C12_EachEntrySentOnce ==
    /\ [](\A k \in Feeds :
            (CycleEnded /\ fpc[k] = "done" /\ ~Unresolvable(k)) =>
                /\ Unread(Url(k)) = <<>>
                /\ \A i \in 1..entries[Url(k)] : <<Url(k), i>> \in delivered)
    /\ [][/\ \A k \in Feeds, i \in Items :
                (sendSt'[k][i] = "sent" /\ sendSt[k][i] # "sent") =>
                    <<Url(k), i>> \notin delivered
          /\ (\E k \in Feeds : fpc'[k] = "fetch" /\ fpc[k] # "fetch") =>
                 (pc = "idle" /\ \A k \in Feeds : fpc[k] \in {"idle", "done"})]_vars

\* Both entries of a feed have been sent and a later cycle, which found
\* nothing unread, has ended.
C12_Witness ==
    \E k \in Feeds :
        /\ CycleEnded
        /\ fpc[k] = "done"
        /\ batch[k] = <<>>
        /\ ~Unresolvable(k)
        /\ entries[Url(k)] = MaxItems
        /\ \A i \in Items : <<Url(k), i>> \in delivered /\ <<Url(k), i>> \in read

(***************************************************************************)
(* C13: the first update_feeds of a run has scheduled = false, is called   *)
(* once reconciliation has completed and has returned before any unread    *)
(* fetch, send or mark-read; whenever a feed of a polling cycle is being   *)
(* delivered, the latest update_feeds had scheduled = true, and a cycle's  *)
(* feeds start in the step in which that update returns.                   *)
(***************************************************************************)
C13_SyncBeforeDelivery ==
    /\ [](/\ syncLog # <<>> => syncLog[1] = FALSE
          /\ (pc = "update0" \/ syncLog # <<>>) =>
                 /\ \A k \in Feeds : addPc[k] = "done"
                 /\ clPc = "done"
          /\ (\E k \in Feeds : fpc[k] # "idle") =>
                 /\ Len(syncLog) = 2
                 /\ syncLog[2] = TRUE
          /\ Len(syncLog) < 2 =>
                 \A k \in Feeds :
                     /\ fpc[k] = "idle"
                     /\ batch[k] = <<>>
                     /\ markPending[k] = {}
                     /\ \A i \in Items : sendSt[k][i] = "none")
    /\ [][(\E k \in Feeds : fpc'[k] = "fetch" /\ fpc[k] # "fetch") =>
              /\ Len(syncLog) >= 1
              /\ syncLog' = <<syncLog[1], TRUE>>]_vars

\* A send of a polling cycle is in flight: the run's first update had
\* scheduled = false and the cycle's own had scheduled = true.
C13_Witness ==
    /\ pc = "polling"
    /\ syncLog = <<FALSE, TRUE>>
    /\ \E k \in Feeds, i \in Items : sendSt[k][i] = "send"

\* The scheduler of the polling loop, as the claims name its states.
LoopState ==
    IF pc \in {"idle", "polling"} THEN "Running"
    ELSE IF pc = "stopped" THEN "Stopped" ELSE "NotStarted"

(***************************************************************************)
(* C14: a READY event that arrives after the one that started the polling  *)
(* loop raises no error, and the loop is started by on_ready alone: it     *)
(* runs only in a process whose ready flag is set.                         *)
(***************************************************************************)
C14_LaterReadyRaisesNothing ==
    /\ startRaised = FALSE
    /\ LoopState # "NotStarted" => is_ready_flag

(***************************************************************************)
(* C15: no error of a feed or of an entry (a store error, a transport      *)
(* error, a failing failure notice, an unresolved channel, an entry that   *)
(* fails to format) leaves a feed's processing or ends the polling loop:   *)
(* once running, the loop never stops.                                     *)
(***************************************************************************)
C15_NoErrorStopsLoop ==
    /\ LoopState # "Stopped"
    /\ \A k \in Feeds : fpc[k] # "failed"

(***************************************************************************)
(* C16: no store error is raised by the executor's run; a feed whose       *)
(* unread fetch failed has an empty batch and is done with nothing sent    *)
(* and nothing to mark; a feed that met a store error goes on to the end   *)
(* of its processing, and an iteration that has called update_feeds,       *)
(* failing or not, goes on to process every feed.                          *)
(***************************************************************************)
C16_StoreErrorsContained ==
    /\ [](/\ runRaised = FALSE
          /\ \A k \in Feeds :
                /\ (storeErr[k] /\ batch[k] = <<>>) =>
                       /\ fpc[k] = "done"
                       /\ received[k] = <<>>
                       /\ markPending[k] = {}
                       /\ \A i \in Items : sendSt[k][i] = "none"
                /\ storeErr[k] => fpc[k] \in {"marking", "done"})
    /\ [][(pc = "idle" /\ pc' \notin {"idle", "setup"}) =>
              (pc' = "polling" /\ \A k \in Feeds : fpc'[k] = "fetch")]_vars

\* A cycle has ended in which the unread fetch of a feed failed although the
\* feed has unread entries and a channel.
C16_Witness ==
    /\ CycleEnded
    /\ \E k \in Feeds :
          /\ storeErr[k]
          /\ batch[k] = <<>>
          /\ ~Unresolvable(k)
          /\ Unread(Url(k)) # <<>>

\* on_ready has run in this process: the connection to Discord succeeded.
Connected == pc \in {"idle", "polling", "stopped"}

(***************************************************************************)
(* C17: the ready flag is false until on_ready has run and true from then  *)
(* on; within a process nothing sets it back to false and nothing but      *)
(* on_ready sets it; the readiness probe answers 200 when the connection   *)
(* has succeeded and 503 otherwise; the liveness probe answers 200 in      *)
(* every state.                                                            *)
(***************************************************************************)
C17_ReadyFlagAndProbes ==
    /\ [](/\ is_ready_flag <=> Connected
          /\ ReadinessProbe("GET /readyz") = (IF Connected THEN 200 ELSE 503)
          /\ LivenessProbe("GET /healthz") = 200)
    /\ [][/\ (is_ready_flag /\ pc' # "setup") => is_ready_flag'
          /\ (~is_ready_flag /\ is_ready_flag') => (pc = "connecting" /\ pc' = "idle")
         ]_vars

\* READY arrived a second time during a polling cycle: the flag is still
\* set and the readiness probe answers 200.
C17_Witness ==
    /\ pc = "polling"
    /\ startRaised
    /\ is_ready_flag
    /\ ReadinessProbe("GET /readyz") = 200

\* Neither the argument nor the environment variable holds a token.
NoCredential == ~Truthy(args_token) /\ ~Truthy(env_token)

\* The configuration file is missing or does not parse or validate.
BadConfig == config_file.kind # "valid"

(***************************************************************************)
(* C18: with no token in the argument and none in the environment, or with *)
(* a configuration that does not load, the process exits with status 1     *)
(* once the step that needs it has run, the store has not been opened or   *)
(* changed and the bot has not connected; a token is taken from the        *)
(* argument when there is one, else from the environment.                  *)
(***************************************************************************)
C18_StartupErrorsAreFatal ==
    /\ (NoCredential \/ BadConfig) =>
          /\ pc \in {"token", "config", "exited"}
          /\ ~storeOpened
          /\ feeds = startFeeds
          /\ tags = [u \in Urls |-> None]
          /\ entries = [u \in Urls |-> 0]
          /\ syncLog = <<>>
          /\ ~is_ready_flag
    /\ (NoCredential /\ pc # "token") => pc = "exited"
    /\ (BadConfig /\ pc \notin {"token", "config"}) => pc = "exited"
    /\ pc = "exited" <=> exit_status = <<1>>
    /\ exit_status \in {<<>>, <<1>>}
    /\ bot_token # <<>> =>
          /\ Truthy(bot_token)
          /\ bot_token = IF Truthy(args_token) THEN args_token ELSE env_token
    /\ pc \notin {"token", "exited"} => bot_token # <<>>

\* Both sources hold a token, the argument's was taken, and the process has
\* exited with 1 on a configuration that does not validate.
C18_Witness ==
    /\ pc = "exited"
    /\ exit_status = <<1>>
    /\ config_file.kind = "invalid"
    /\ Truthy(args_token)
    /\ Truthy(env_token)
    /\ bot_token = args_token
    /\ ~storeOpened

(***************************************************************************)
(* C19: when no store call of the reconciliation fails in the store, no    *)
(* add_feed raises an error, also for a URL that is registered already     *)
(* (from an earlier run or run of the same process); once add_feed has     *)
(* returned the URL is registered, and a configured interval is the feed's *)
(* tag, whether add_feed registered the feed or found it.                  *)
(***************************************************************************)
C19_AddFeedIdempotent ==
    /\ ~storeFault => ~reconErr
    /\ \A k \in Feeds :
          (addPc[k] = "done" /\ ~storeFault /\ pc \in {"setup", "update0"}) =>
              /\ Url(k) \in feeds
              /\ config[k].update_interval # None =>
                     tags[Url(k)] = config[k].update_interval

\* add_feed has returned for a URL that was registered before setup began
\* and that has a configured interval: the tag is set.
C19_Witness ==
    \E k \in Feeds :
        /\ addPc[k] = "done"
        /\ ~storeFault
        /\ Url(k) \in startFeeds
        /\ config[k].update_interval # None
        /\ tags[Url(k)] = config[k].update_interval

(***************************************************************************)
(* C20: no store method (add_feed, set_tag, delete_feed, get_feeds,        *)
(* update_feeds, get_entries, mark_entry_as_read) is called on the         *)
(* event-loop thread: each goes through the executor's run.                *)
(***************************************************************************)
C20_StoreCallsOnWorker == directCalls = {}

(***************************************************************************)
(* C21: a gather returns only when every task it was given has ended,      *)
(* also when one of them failed: with every entry formatted, a feed whose  *)
(* processing has returned, and a polling cycle that has ended, have no    *)
(* send and no mark-read of theirs still in flight.                        *)
(***************************************************************************)
C21_GatherWaitsForAll ==
    FormatHealthy =>
        \A k \in Feeds :
            (fpc[k] = "done" \/ CycleEnded) =>
                (InFlight(k) = {} /\ markPending[k] = {})

\* Reconciliation is running or has just returned (its records are kept).
InReconciliation == pc \in {"setup", "update0"}

(***************************************************************************)
(* C22: no store error leaves the reconciliation; a configured feed whose  *)
(* own add_feed call did not fail is registered once its add_feed has      *)
(* returned, whatever failed for the other feeds; once cleanup has         *)
(* returned, a stale feed whose own delete_feed call did not fail is gone, *)
(* whatever failed for the other stale feeds; and when the snapshot of the *)
(* registered feeds failed, cleanup has deleted nothing.                   *)
(***************************************************************************)
C22_ReconciliationIsolatesFailures ==
    /\ runRaised = FALSE
    /\ exit_status = <<>>
    /\ \A k \in Feeds :
          (/\ InReconciliation
           /\ addPc[k] = "done"
           /\ <<"add_feed", Url(k)>> \notin faulted) => Url(k) \in feeds
    /\ (InReconciliation /\ clPc = "done") =>
          IF <<"get_feeds", "">> \in faulted
          THEN startFeeds \subseteq feeds
          ELSE \A u \in startFeeds \ ConfigUrls :
                   <<"delete_feed", u>> \notin faulted => u \notin feeds

\* Reconciliation has returned: the add_feed call of one configured feed
\* failed and the feed is not registered, another configured feed was
\* registered by this run, and a stale feed was deleted.
C22_Witness ==
    /\ pc = "update0"
    /\ \E a, b \in Feeds :
          /\ <<"add_feed", Url(a)>> \in faulted
          /\ Url(a) \notin feeds
          /\ Url(b) \in feeds \ startFeeds
    /\ \E u \in startFeeds \ ConfigUrls : u \notin feeds

====
